---- MODULE Spec2Model ----
(***************************************************************************)
(* Quicksave: the registry (src/config.py), the snapshotter                *)
(* (src/backup_manager.py) and the command dispatcher (src/main.py).       *)
(*                                                                         *)
(* A Python str is a sequence of one-character strings, so that prefix,    *)
(* suffix, split, join and the code-point order are computed as Python     *)
(* computes them.  A Python dict is a sequence of <<key, value>> pairs in  *)
(* insertion order, with unique keys.                                      *)
(***************************************************************************)
EXTENDS Integers, Sequences, FiniteSets, TLC

VARIABLES
    disk,      \* the file quicksave.yaml
    pc,        \* per process: "start" (no Config object yet), "ready", "done"
    config,    \* per process: Config.config, the in-memory document
    dirs,      \* the directories that exist in the file system
    files,     \* the archives on disk, as <<directory, file name>> pairs
    last,      \* the last call: operation, arguments and what it returned
    snap       \* the last save command, while only show commands followed it

vars == <<disk, pc, config, dirs, files, last, snap>>

----------------------------------------------------------------------------
(* Bounds of the model *)

\* length of the alias lists the model builds
MaxAliases == 2
\* number of archives the file system holds
MaxFiles == 2
\* number of concurrent process instances
NumProcs == 2

----------------------------------------------------------------------------
(* Python str *)

\* ord(c) for the characters the model uses
Ord(c) ==
    CASE c = "-" -> 45
      [] c = "." -> 46
      [] c = "/" -> 47
      [] c = "0" -> 48
      [] c = "1" -> 49
      [] c = "2" -> 50
      [] c = "3" -> 51
      [] c = "4" -> 52
      [] c = "5" -> 53
      [] c = "6" -> 54
      [] c = "7" -> 55
      [] c = "8" -> 56
      [] c = "9" -> 57
      [] c = ":" -> 58
      [] c = "_" -> 95
      [] c = "a" -> 97
      [] c = "b" -> 98
      [] c = "c" -> 99
      [] c = "e" -> 101
      [] c = "g" -> 103
      [] c = "h" -> 104
      [] c = "i" -> 105
      [] c = "k" -> 107
      [] c = "m" -> 109
      [] c = "p" -> 112
      [] c = "s" -> 115
      [] c = "t" -> 116
      [] c = "u" -> 117
      [] c = "x" -> 120
      [] c = "z" -> 122

\* s < t for two str: the code-point lexicographic order
RECURSIVE StrLess(_, _)
StrLess(s, t) ==
    IF t = <<>> THEN FALSE
    ELSE IF s = <<>> THEN TRUE
    ELSE IF Ord(Head(s)) < Ord(Head(t)) THEN TRUE
    ELSE IF Ord(Head(s)) > Ord(Head(t)) THEN FALSE
    ELSE StrLess(Tail(s), Tail(t))

\* s.startswith(p)
startswith(s, p) == Len(s) >= Len(p) /\ SubSeq(s, 1, Len(p)) = p

\* s.endswith(p)
endswith(s, p) == Len(s) >= Len(p) /\ SubSeq(s, Len(s) - Len(p) + 1, Len(s)) = p

\* s.find(sep) for a one-character sep, searched from position i on: the
\* first position of sep, 0 when there is none
RECURSIVE FindFrom(_, _, _)
FindFrom(s, sep, i) ==
    IF i > Len(s) THEN 0 ELSE IF s[i] = sep THEN i ELSE FindFrom(s, sep, i + 1)

\* s.split(sep) for a one-character sep: always at least one part
RECURSIVE SplitAt(_, _, _)
SplitAt(s, sep, i) ==
    IF i = 0 THEN <<s>>
    ELSE <<SubSeq(s, 1, i - 1)>>
             \o SplitAt(SubSeq(s, i + 1, Len(s)), sep,
                        FindFrom(SubSeq(s, i + 1, Len(s)), sep, 1))

split(s, sep) == SplitAt(s, sep, FindFrom(s, sep, 1))

\* sep.join(parts)
RECURSIVE join(_, _)
join(parts, sep) ==
    IF parts = <<>> THEN <<>>
    ELSE IF Len(parts) = 1 THEN parts[1]
    ELSE parts[1] \o <<sep>> \o join(Tail(parts), sep)

\* x in list
InList(x, list) == \E i \in 1..Len(list) : list[i] = x

\* list.count(x)
Count(x, list) == Cardinality({i \in 1..Len(list) : list[i] = x})

----------------------------------------------------------------------------
(* Python dict: a sequence of <<key, value>> in insertion order *)

Keys(d) == {d[i][1] : i \in 1..Len(d)}

\* key in d
HasKey(d, k) == \E i \in 1..Len(d) : d[i][1] = k

\* the position of key k in d, 0 when absent
IndexOf(d, k) ==
    IF HasKey(d, k) THEN CHOOSE i \in 1..Len(d) : d[i][1] = k ELSE 0

\* d[k]
Lookup(d, k) == d[IndexOf(d, k)][2]

\* d[k] = v: an existing key keeps its position, a new key goes last
SetItem(d, k, v) ==
    IF HasKey(d, k)
    THEN [i \in 1..Len(d) |-> IF d[i][1] = k THEN <<k, v>> ELSE d[i]]
    ELSE Append(d, <<k, v>>)

\* del d[k]
DelItem(d, k) ==
    LET i == IndexOf(d, k)
    IN SubSeq(d, 1, i - 1) \o SubSeq(d, i + 1, Len(d))

\* d == e for two dicts: the same keys with the same values, in any order
DictEq(d, e) ==
    /\ Keys(d) = Keys(e)
    /\ \A k \in Keys(d) : Lookup(d, k) = Lookup(e, k)

\* the pairs of d in ascending key order
RECURSIVE SortByKey(_)
SortByKey(d) ==
    IF d = <<>> THEN <<>>
    ELSE LET i == CHOOSE k \in 1..Len(d) :
                      \A j \in 1..Len(d) : j = k \/ StrLess(d[k][1], d[j][1])
         IN <<d[i]>> \o SortByKey(SubSeq(d, 1, i - 1) \o SubSeq(d, i + 1, Len(d)))

----------------------------------------------------------------------------
(* The registry document, src/config.py *)

Procs == 1..NumProcs

\* {}: a document with neither "version" nor "games"
EmptyDoc == [hasVersion |-> FALSE, hasGames |-> FALSE, games |-> <<>>]

\* {"version": "0.1.0", "games": {}}
DefaultDoc == [hasVersion |-> TRUE, hasGames |-> TRUE, games |-> <<>>]

\* one value of the "games" mapping
GameInfo(save_dir, backup_dir, aliases) ==
    [save_dir |-> save_dir, backup_dir |-> backup_dir, aliases |-> aliases]

\* yaml.dump(config, file): the mapping keys are written in sorted order
yaml_dump(cfg) ==
    [kind |-> "yaml",
     doc  |-> [hasVersion |-> cfg.hasVersion, hasGames |-> cfg.hasGames,
               games |-> SortByKey(cfg.games)]]

\* Config._save_config: the file as it is after the write
save_config(cfg) == yaml_dump(cfg)

\* load_config with the default document written over an unparseable file
load_config_overwrites_corrupt(file) ==
    IF file.kind \in {"missing", "corrupt"}
    THEN [config |-> DefaultDoc, disk |-> save_config(DefaultDoc)]
    ELSE IF file.kind = "empty"
    THEN [config |-> EmptyDoc, disk |-> file]
    ELSE [config |-> file.doc, disk |-> file]

\* Config._load_config: the document returned and the file afterwards.
\* A file that does not exist is created with the default document; a file
\* that does not parse gives the default document and is left alone; an
\* empty file parses to None, which "or {}" turns into {}.
load_config(file) ==
    IF file.kind = "missing"
    THEN [config |-> DefaultDoc, disk |-> save_config(DefaultDoc)]
    ELSE IF file.kind = "corrupt"
    THEN [config |-> DefaultDoc, disk |-> file]
    ELSE IF file.kind = "empty"
    THEN [config |-> EmptyDoc, disk |-> file]
    ELSE [config |-> file.doc, disk |-> file]

\* Config.get_games: self.config.get("games", {})
get_games(cfg) == IF cfg.hasGames THEN cfg.games ELSE <<>>

\* get_game with the alias scan keeping the last entry that lists the alias
get_game_last_match(cfg, name_or_alias) ==
    LET games == get_games(cfg)
        hits  == {i \in 1..Len(games) : InList(name_or_alias, games[i][2].aliases)}
    IN IF HasKey(games, name_or_alias) THEN IndexOf(games, name_or_alias)
       ELSE IF hits # {} THEN CHOOSE i \in hits : \A j \in hits : j <= i
       ELSE 0

\* Config.get_game: the position in get_games() of the entry returned, which
\* identifies the dict object; 0 is None
get_game(cfg, name_or_alias) ==
    LET games == get_games(cfg)
    IN IF HasKey(games, name_or_alias) THEN IndexOf(games, name_or_alias)
       ELSE IF \E i \in 1..Len(games) : InList(name_or_alias, games[i][2].aliases)
       THEN CHOOSE i \in 1..Len(games) :
                /\ InList(name_or_alias, games[i][2].aliases)
                /\ \A j \in 1..(i - 1) : ~InList(name_or_alias, games[j][2].aliases)
       ELSE 0

\* add_game that leaves an entry already registered under the name alone
add_game_keeps_existing(cfg, name, save_dir, backup_dir, aliases) ==
    IF HasKey(get_games(cfg), name) THEN [cfg EXCEPT !.hasGames = TRUE]
    ELSE [cfg EXCEPT !.hasGames = TRUE,
                     !.games = SetItem(get_games(cfg), name,
                                       GameInfo(save_dir, backup_dir, aliases))]

\* Config.add_game: the document afterwards; it is always saved
add_game(cfg, name, save_dir, backup_dir, aliases) ==
    [cfg EXCEPT !.hasGames = TRUE,
                !.games = SetItem(get_games(cfg), name,
                                  GameInfo(save_dir, backup_dir, aliases))]

\* add_alias without the membership test: the alias is appended every time
add_alias_always_appends(cfg, name, alias) ==
    LET games == get_games(cfg)
    IN IF ~HasKey(games, name)
       THEN [config |-> cfg, ret |-> FALSE, saved |-> FALSE]
       ELSE [config |-> [cfg EXCEPT !.games = SetItem(games, name,
                            [Lookup(games, name) EXCEPT !.aliases = Append(@, alias)])],
             ret |-> TRUE, saved |-> TRUE]

\* Config.add_alias: the document afterwards, the value returned and whether
\* self.save() was called
add_alias(cfg, name, alias) ==
    LET games == get_games(cfg)
    IN IF ~HasKey(games, name)
       THEN [config |-> cfg, ret |-> FALSE, saved |-> FALSE]
       ELSE LET info == Lookup(games, name)
            IN IF ~InList(alias, info.aliases)
               THEN [config |-> [cfg EXCEPT !.games = SetItem(games, name,
                                    [info EXCEPT !.aliases = Append(@, alias)])],
                     ret |-> TRUE, saved |-> TRUE]
               ELSE [config |-> cfg, ret |-> TRUE, saved |-> FALSE]

\* update_game storing the entry found by alias under the alias
update_game_under_alias(cfg, name_or_alias, game_info) ==
    LET cfg1  == [cfg EXCEPT !.hasGames = TRUE]
        games == cfg1.games
    IN IF \/ HasKey(games, name_or_alias)
          \/ \E i \in 1..Len(games) : InList(name_or_alias, games[i][2].aliases)
       THEN [config |-> [cfg1 EXCEPT !.games = SetItem(games, name_or_alias, game_info)],
             ret |-> TRUE, saved |-> TRUE]
       ELSE [config |-> cfg1, ret |-> FALSE, saved |-> FALSE]

\* Config.update_game: "games" is created when absent; the entry under the
\* name, else the first entry in iteration order that lists the alias, is
\* replaced under its own key
update_game(cfg, name_or_alias, game_info) ==
    LET cfg1  == [cfg EXCEPT !.hasGames = TRUE]
        games == cfg1.games
        hits  == {i \in 1..Len(games) : InList(name_or_alias, games[i][2].aliases)}
    IN IF HasKey(games, name_or_alias)
       THEN [config |-> [cfg1 EXCEPT !.games = SetItem(games, name_or_alias, game_info)],
             ret |-> TRUE, saved |-> TRUE]
       ELSE IF hits # {}
       THEN LET i == CHOOSE k \in hits : \A j \in hits : k <= j
            IN [config |-> [cfg1 EXCEPT !.games = SetItem(games, games[i][1], game_info)],
                ret |-> TRUE, saved |-> TRUE]
       ELSE [config |-> cfg1, ret |-> FALSE, saved |-> FALSE]

\* remove_game without self.save() on the alias branch
remove_game_alias_unsaved(cfg, name_or_alias) ==
    LET games == get_games(cfg)
        hits  == {i \in 1..Len(games) : InList(name_or_alias, games[i][2].aliases)}
    IN IF HasKey(games, name_or_alias)
       THEN [config |-> [cfg EXCEPT !.games = DelItem(games, name_or_alias)],
             ret |-> TRUE, saved |-> TRUE]
       ELSE IF hits # {}
       THEN LET i == CHOOSE k \in hits : \A j \in hits : k <= j
            IN [config |-> [cfg EXCEPT !.games = DelItem(games, games[i][1])],
                ret |-> TRUE, saved |-> FALSE]
       ELSE [config |-> cfg, ret |-> FALSE, saved |-> FALSE]

\* Config.remove_game: the entry under the name, else the first entry in
\* iteration order that lists the alias, is deleted
remove_game(cfg, name_or_alias) ==
    LET games == get_games(cfg)
        hits  == {i \in 1..Len(games) : InList(name_or_alias, games[i][2].aliases)}
    IN IF HasKey(games, name_or_alias)
       THEN [config |-> [cfg EXCEPT !.games = DelItem(games, name_or_alias)],
             ret |-> TRUE, saved |-> TRUE]
       ELSE IF hits # {}
       THEN LET i == CHOOSE k \in hits : \A j \in hits : k <= j
            IN [config |-> [cfg EXCEPT !.games = DelItem(games, games[i][1])],
                ret |-> TRUE, saved |-> TRUE]
       ELSE [config |-> cfg, ret |-> FALSE, saved |-> FALSE]

----------------------------------------------------------------------------
(* The calls of the registry, one action each *)

\* the strings used as game names, and as aliases and lookup arguments
a == <<"a">>
b == <<"b">>
c == <<"c">>
GameNames == {a, b}
AliasNames == {a, b, c}

\* the paths used
SaveG  == <<"/", "g">>
SaveGH == <<"/", "g", "_", "h">>
SaveX  == <<"/", "x">>
BackupB  == <<"/", "b">>
BackupS3 == <<"s", "3", ":", "/", "/", "b">>

\* the alias lists passed to add_game and update_game: none, one alias, two
\* aliases of which one is the name of a game, one alias twice
AliasLists == {<<>>, <<c>>, <<b, c>>, <<c, c>>}

\* the entries passed to update_game
GameInfos == {GameInfo(SaveG, BackupB, al) : al \in AliasLists}

NoInfo == GameInfo(<<>>, <<>>, <<>>)

\* what a call leaves in `last`: the operation, the process, the arguments,
\* the value returned, whether the document was written, the output, and
\* whether the call repeats the call before it ("no", or how that call ended:
\* "saved", "unsaved")
Call(op, p, name, alias, info, ret, saved, out) ==
    [op |-> op, proc |-> p, name |-> name, alias |-> alias, info |-> info,
     ret |-> ret, saved |-> saved, out |-> out,
     again |-> IF /\ last.op = op /\ last.proc = p /\ last.name = name
                  /\ last.alias = alias /\ last.info = info /\ last.ret = "True"
               THEN (IF last.saved THEN "saved" ELSE "unsaved")
               ELSE "no"]

NoCall ==
    [op |-> "none", proc |-> 0, name |-> <<>>, alias |-> <<>>, info |-> NoInfo,
     ret |-> "None", saved |-> FALSE, out |-> <<>>, again |-> "no"]

Bool(x) == IF x THEN "True" ELSE "False"

\* Config.__init__: the process loads the document
Load(p) ==
    /\ pc[p] = "start"
    /\ LET r == load_config(disk)
       IN /\ config' = [config EXCEPT ![p] = r.config]
          /\ disk' = r.disk
          /\ last' = Call("load", p, <<>>, <<>>, NoInfo, "None", r.disk # disk, <<>>)
    /\ pc' = [pc EXCEPT ![p] = "ready"]
    /\ UNCHANGED <<dirs, files, snap>>

\* the process ends; its Config object is gone
Exit(p) ==
    /\ pc[p] # "start"
    /\ pc' = [pc EXCEPT ![p] = "start"]
    /\ config' = [config EXCEPT ![p] = EmptyDoc]
    /\ last' = Call("exit", p, <<>>, <<>>, NoInfo, "None", FALSE, <<>>)
    /\ UNCHANGED <<disk, dirs, files, snap>>

GetGame(p, name_or_alias) ==
    /\ pc[p] = "ready"
    /\ last' = Call("get_game", p, name_or_alias, <<>>, NoInfo, "None", FALSE,
                    <<get_game(config[p], name_or_alias)>>)
    /\ UNCHANGED <<disk, pc, config, dirs, files, snap>>

AddGame(p, name, save_dir, backup_dir, aliases) ==
    /\ pc[p] = "ready"
    /\ LET cfg == add_game(config[p], name, save_dir, backup_dir, aliases)
       IN /\ config' = [config EXCEPT ![p] = cfg]
          /\ disk' = save_config(cfg)
    /\ last' = Call("add_game", p, name, <<>>,
                    GameInfo(save_dir, backup_dir, aliases), "None", TRUE, <<>>)
    /\ UNCHANGED <<pc, dirs, files, snap>>

AddAlias(p, name, alias) ==
    /\ pc[p] = "ready"
    /\ LET r == add_alias(config[p], name, alias)
       IN /\ \A i \in 1..Len(r.config.games) :
                 Len(r.config.games[i][2].aliases) <= MaxAliases
          /\ config' = [config EXCEPT ![p] = r.config]
          /\ disk' = IF r.saved THEN save_config(r.config) ELSE disk
          /\ last' = Call("add_alias", p, name, alias, NoInfo, Bool(r.ret), r.saved, <<>>)
    /\ UNCHANGED <<pc, dirs, files, snap>>

UpdateGame(p, name_or_alias, game_info) ==
    /\ pc[p] = "ready"
    /\ LET r == update_game(config[p], name_or_alias, game_info)
       IN /\ config' = [config EXCEPT ![p] = r.config]
          /\ disk' = IF r.saved THEN save_config(r.config) ELSE disk
          /\ last' = Call("update_game", p, name_or_alias, <<>>, game_info,
                          Bool(r.ret), r.saved, <<>>)
    /\ UNCHANGED <<pc, dirs, files, snap>>

RemoveGame(p, name_or_alias) ==
    /\ pc[p] = "ready"
    /\ LET r == remove_game(config[p], name_or_alias)
       IN /\ config' = [config EXCEPT ![p] = r.config]
          /\ disk' = IF r.saved THEN save_config(r.config) ELSE disk
          /\ last' = Call("remove_game", p, name_or_alias, <<>>, NoInfo,
                          Bool(r.ret), r.saved, <<>>)
    /\ UNCHANGED <<pc, dirs, files, snap>>

\* the file quicksave.yaml before the first run: absent, unparseable or empty
DiskInit ==
    {[kind |-> k, doc |-> EmptyDoc] : k \in {"missing", "corrupt", "empty"}}

Init ==
    /\ disk \in DiskInit
    /\ pc = [p \in Procs |-> "start"]
    /\ config = [p \in Procs |-> EmptyDoc]
    /\ dirs = {SaveG, SaveGH}
    /\ files = {}
    /\ last = NoCall
    /\ snap = NoCall

\* one process using the registry
NextRegistry ==
    \/ Load(1)
    \/ Exit(1)
    \/ \E x \in AliasNames : GetGame(1, x)
    \/ \E n \in GameNames, al \in AliasLists : AddGame(1, n, SaveG, BackupB, al)
    \/ \E n \in GameNames, x \in AliasNames : AddAlias(1, n, x)
    \/ \E x \in AliasNames, e \in GameInfos : UpdateGame(1, x, e)
    \/ \E x \in AliasNames : RemoveGame(1, x)

SpecRegistry == Init /\ [][NextRegistry]_vars

----------------------------------------------------------------------------
(* Paths and the clock: os.path, pathlib, datetime *)

Slash == "/"

\* the position of the last "/" of path, 0 when it has none
RECURSIVE LastSlashUpTo(_, _)
LastSlashUpTo(path, i) ==
    IF i = 0 THEN 0 ELSE IF path[i] = Slash THEN i ELSE LastSlashUpTo(path, i - 1)

LastSlash(path) == LastSlashUpTo(path, Len(path))

\* path without its trailing slashes; a path of slashes only is kept
RECURSIVE StripSlashes(_)
StripSlashes(path) ==
    IF \A i \in 1..Len(path) : path[i] = Slash THEN path
    ELSE IF path[Len(path)] = Slash THEN StripSlashes(SubSeq(path, 1, Len(path) - 1))
    ELSE path

\* os.path.basename: what follows the last "/"
basename(path) == SubSeq(path, LastSlash(path) + 1, Len(path))

\* os.path.dirname: what precedes the last "/", without trailing slashes
dirname(path) == StripSlashes(SubSeq(path, 1, LastSlash(path)))

\* os.path.join of two parts
path_join(x, y) ==
    IF y # <<>> /\ y[1] = Slash THEN y
    ELSE IF x = <<>> \/ x[Len(x)] = Slash THEN x \o y
    ELSE x \o <<Slash>> \o y

\* os.path.abspath of an absolute path without "." and ".." components: the
\* trailing slashes go
abspath(path) == StripSlashes(path)

\* pathlib.Path(path).name: the last component, trailing slashes ignored
path_name(path) ==
    IF \A i \in 1..Len(path) : path[i] = Slash THEN <<>>
    ELSE basename(StripSlashes(path))

Digits == <<"0", "1", "2", "3", "4", "5", "6", "7", "8", "9">>

\* n in decimal, zero-padded to w digits
RECURSIVE Padded(_, _)
Padded(n, w) ==
    IF w = 0 THEN <<>> ELSE Padded(n \div 10, w - 1) \o <<Digits[(n % 10) + 1]>>

\* datetime.strftime("%Y-%m-%d_%H-%M-%S")
strftime(t) ==
    Padded(t.year, 4) \o <<"-">> \o Padded(t.month, 2) \o <<"-">> \o Padded(t.day, 2)
        \o <<"_">>
        \o Padded(t.hour, 2) \o <<"-">> \o Padded(t.minute, 2) \o <<"-">> \o Padded(t.second, 2)

----------------------------------------------------------------------------
(* The snapshotter, src/backup_manager.py *)

S3Scheme == <<"s", "3", ":", "/", "/">>
ZipExt == <<".", "z", "i", "p">>
TempBackups == <<"t", "e", "m", "p", "_", "b", "a", "c", "k", "u", "p", "s">>

\* BackupManager.is_s3_path
is_s3_path(path) == startswith(path, S3Scheme)

\* BackupManager.parse_s3_path: <<bucket_name, key_prefix>>, split at the first
\* "/" after the scheme
parse_s3_path(s3_path) ==
    LET rest == SubSeq(s3_path, Len(S3Scheme) + 1, Len(s3_path))
        i    == FindFrom(rest, Slash, 1)
    IN IF i # 0
       THEN <<SubSeq(rest, 1, i - 1), SubSeq(rest, i + 1, Len(rest))>>
       ELSE <<rest, <<>>>>

\* os.listdir(d): the names of the files and directories directly in d
listdir(d, ds, fs) ==
    {f[2] : f \in {g \in fs : g[1] = d}}
        \cup {basename(x) : x \in {y \in ds : y # d /\ dirname(y) = d}}

\* zipfile.ZipFile(path, 'w') and the writes: the archive exists afterwards
\* when its directory exists; otherwise the open raises
ZipWrite(path, ds, fs) ==
    IF dirname(path) \in ds
    THEN [raised |-> FALSE, files |-> fs \cup {<<dirname(path), basename(path)>>}]
    ELSE [raised |-> TRUE, files |-> fs]

\* BackupManager.create_backup: the path returned, whether an exception left
\* the call, and the file system afterwards
create_backup(source_dir, backup_dir, snapshot_name, ds, fs) ==
    LET source_name     == path_name(source_dir)
        backup_filename == source_name \o <<"_">> \o snapshot_name \o ZipExt
    IN IF is_s3_path(backup_dir)
       THEN LET temp_dir    == path_join(dirname(source_dir), TempBackups)
                ds1         == ds \cup {temp_dir}
                backup_path == path_join(temp_dir, backup_filename)
                s3_path     == backup_dir \o <<Slash>> \o backup_filename
                w           == ZipWrite(backup_path, ds1, fs)
            IN [path |-> s3_path, raised |-> w.raised, dirs |-> ds1, files |-> w.files]
       ELSE LET backup_path == path_join(backup_dir, backup_filename)
                w           == ZipWrite(backup_path, ds, fs)
            IN [path |-> backup_path, raised |-> w.raised, dirs |-> ds, files |-> w.files]

\* a snapshot tuple (filename, timestamp, tag); tag is <<>> for None and
\* <<t>> for the str t
Snapshot(file, timestamp, tag) == [file |-> file, timestamp |-> timestamp, tag |-> tag]

\* the loop of list_snapshots with the tag taken from parts[2] alone
RECURSIVE ScanSnapshots_tag_first_part(_, _)
ScanSnapshots_tag_first_part(listing, prefix) ==
    IF listing = <<>> THEN <<>>
    ELSE LET file == Head(listing)
             rest == ScanSnapshots_tag_first_part(Tail(listing), prefix)
         IN IF startswith(file, prefix) /\ endswith(file, ZipExt)
            THEN LET name_part == SubSeq(file, Len(prefix) + 1, Len(file) - Len(ZipExt))
                     parts     == split(name_part, "_")
                 IN IF Len(parts) >= 2
                    THEN <<Snapshot(file, parts[1] \o <<"_">> \o parts[2],
                                    IF Len(parts) > 2 THEN <<parts[3]>> ELSE <<>>)>> \o rest
                    ELSE rest
            ELSE rest

\* the loop of list_snapshots over one listing: the tuples appended, in the
\* order of the listing
RECURSIVE ScanSnapshots(_, _)
ScanSnapshots(listing, prefix) ==
    IF listing = <<>> THEN <<>>
    ELSE LET file == Head(listing)
             rest == ScanSnapshots(Tail(listing), prefix)
         IN IF startswith(file, prefix) /\ endswith(file, ZipExt)
            THEN LET name_part == SubSeq(file, Len(prefix) + 1, Len(file) - Len(ZipExt))
                     parts     == split(name_part, "_")
                 IN IF Len(parts) >= 2
                    THEN LET timestamp == parts[1] \o <<"_">> \o parts[2]
                             tag == IF Len(parts) > 2
                                    THEN <<join(SubSeq(parts, 3, Len(parts)), "_")>>
                                    ELSE <<>>
                         IN <<Snapshot(file, timestamp, tag)>> \o rest
                    ELSE rest
            ELSE rest

\* sorted without reverse=True: ascending by timestamp, stable
RECURSIVE SortedOldestFirst(_)
SortedOldestFirst(snapshots) ==
    IF snapshots = <<>> THEN <<>>
    ELSE LET n     == Len(snapshots)
             front == SortedOldestFirst(SubSeq(snapshots, 1, n - 1))
             x     == snapshots[n]
             keep  == {i \in 1..Len(front) : ~StrLess(x.timestamp, front[i].timestamp)}
             k     == Cardinality(keep)
         IN SubSeq(front, 1, k) \o <<x>> \o SubSeq(front, k + 1, Len(front))

\* sorted(snapshots, key=lambda x: x[1], reverse=True): descending by
\* timestamp, stable (equal timestamps keep the order they came in)
RECURSIVE SortedNewestFirst(_)
SortedNewestFirst(snapshots) ==
    IF snapshots = <<>> THEN <<>>
    ELSE LET n     == Len(snapshots)
             front == SortedNewestFirst(SubSeq(snapshots, 1, n - 1))
             x     == snapshots[n]
             keep  == {i \in 1..Len(front) : ~StrLess(front[i].timestamp, x.timestamp)}
             k     == Cardinality(keep)
         IN SubSeq(front, 1, k) \o <<x>> \o SubSeq(front, k + 1, Len(front))

\* BackupManager.list_snapshots, given the order in which os.listdir returns
\* the directory
list_snapshots(backup_dir, source_name, ds, listing) ==
    IF is_s3_path(backup_dir) THEN <<>>
    ELSE IF backup_dir \notin ds THEN <<>>
    ELSE SortedNewestFirst(ScanSnapshots(listing, source_name \o <<"_">>))

\* verify_directories creating the backup directory before it looks at the
\* save directory
verify_directories_backup_first(save_dir, backup_dir, ds, makedirs_ok) ==
    LET ds1 == IF ~is_s3_path(backup_dir) /\ makedirs_ok THEN ds \cup {backup_dir} ELSE ds
    IN IF save_dir \notin ds
       THEN [ok |-> FALSE, error |-> "PathMissing", dirs |-> ds1]
       ELSE IF is_s3_path(backup_dir)
       THEN IF parse_s3_path(backup_dir)[1] = <<>>
            THEN [ok |-> FALSE, error |-> "InvalidS3", dirs |-> ds]
            ELSE [ok |-> TRUE, error |-> "None", dirs |-> ds]
       ELSE IF backup_dir \notin ds1
       THEN [ok |-> FALSE, error |-> "PathCreateFailure", dirs |-> ds]
       ELSE [ok |-> TRUE, error |-> "None", dirs |-> ds1]

\* BackupManager.verify_directories: (success, the kind of the message) and
\* the directories afterwards; makedirs_ok is whether os.makedirs succeeds
verify_directories(save_dir, backup_dir, ds, makedirs_ok) ==
    IF save_dir \notin ds
    THEN [ok |-> FALSE, error |-> "PathMissing", dirs |-> ds]
    ELSE IF is_s3_path(backup_dir)
    THEN IF parse_s3_path(backup_dir)[1] = <<>>
         THEN [ok |-> FALSE, error |-> "InvalidS3", dirs |-> ds]
         ELSE [ok |-> TRUE, error |-> "None", dirs |-> ds]
    ELSE IF backup_dir \notin ds
    THEN IF makedirs_ok
         THEN [ok |-> TRUE, error |-> "None", dirs |-> ds \cup {backup_dir}]
         ELSE [ok |-> FALSE, error |-> "PathCreateFailure", dirs |-> ds]
    ELSE [ok |-> TRUE, error |-> "None", dirs |-> ds]

----------------------------------------------------------------------------
(* The commands, src/main.py: a process loads the document (Load), runs one
   command and ends (Exit) *)

\* the arguments of the register commands run
RegisterArgs ==
    {[name |-> a, save_dir |-> SaveG, backup_dir |-> BackupB, alias |-> <<c>>],
     [name |-> a, save_dir |-> SaveG \o <<Slash>>, backup_dir |-> BackupB, alias |-> <<>>],
     [name |-> b, save_dir |-> SaveGH, backup_dir |-> BackupB, alias |-> <<>>],
     [name |-> b, save_dir |-> SaveGH, backup_dir |-> BackupS3, alias |-> <<>>],
     [name |-> a, save_dir |-> SaveX, backup_dir |-> BackupB, alias |-> <<>>],
     [name |-> b, save_dir |-> SaveG, backup_dir |-> S3Scheme, alias |-> <<>>]}

\* the --tag values: none, one with an underscore, one with a path separator
Tags == {<<>>, <<"t", "_", "u">>, <<"a", "/", "t">>}

\* the --backup-dir values of save and show: none, a local directory
Overrides == {<<>>, BackupB}

\* the values of datetime.now()
Clocks ==
    {[year |-> 2025, month |-> 6, day |-> 2, hour |-> 8, minute |-> 15, second |-> 22],
     [year |-> 2025, month |-> 12, day |-> 31, hour |-> 23, minute |-> 59, second |-> 59]}

\* the orders in which os.listdir may return the names S
RECURSIVE Orderings(_)
Orderings(S) ==
    IF S = {} THEN {<<>>}
    ELSE UNION {{<<x>> \o o : o \in Orderings(S \ {x})} : x \in S}

\* main, register: the directories are verified, then the game is added
Register(p, args, makedirs_ok) ==
    /\ pc[p] = "ready"
    /\ LET save_dir   == abspath(args.save_dir)
           backup_dir == IF startswith(args.backup_dir, S3Scheme)
                         THEN args.backup_dir ELSE abspath(args.backup_dir)
           v          == verify_directories(save_dir, backup_dir, dirs, makedirs_ok)
           cfg        == add_game(config[p], args.name, save_dir, backup_dir, args.alias)
           info       == GameInfo(save_dir, backup_dir, args.alias)
       IN /\ dirs' = v.dirs
          /\ IF ~v.ok
             THEN /\ UNCHANGED <<config, disk>>
                  /\ last' = Call("register", p, args.name, <<>>, info, v.error, FALSE, <<>>)
             ELSE /\ config' = [config EXCEPT ![p] = cfg]
                  /\ disk' = save_config(cfg)
                  /\ last' = Call("register", p, args.name, <<>>, info, "Registered", TRUE, <<>>)
    /\ pc' = [pc EXCEPT ![p] = "done"]
    /\ snap' = NoCall
    /\ UNCHANGED files

\* main, save: the game is resolved, the snapshot is named after the clock
\* and the tag, the archive is created
Save(p, game, tag, override, now) ==
    /\ pc[p] = "ready"
    /\ LET i          == get_game(config[p], game)
           game_info  == get_games(config[p])[i][2]
           save_dir   == game_info.save_dir
           backup_dir == IF override # <<>> THEN override ELSE game_info.backup_dir
           timestamp  == strftime(now)
           snapshot_name == IF tag # <<>> THEN timestamp \o <<"_">> \o tag ELSE timestamp
       IN IF i = 0
          THEN /\ last' = Call("save", p, game, tag, NoInfo, "NotFound", FALSE, <<>>)
               /\ snap' = NoCall
               /\ UNCHANGED <<dirs, files>>
          ELSE IF save_dir \notin dirs
          THEN /\ last' = Call("save", p, game, tag, GameInfo(save_dir, backup_dir, <<>>),
                               "PathMissing", FALSE, <<>>)
               /\ snap' = NoCall
               /\ UNCHANGED <<dirs, files>>
          ELSE \E r \in {create_backup(save_dir, backup_dir, snapshot_name, dirs, files)} :
                  /\ Cardinality(r.files) <= MaxFiles
                  /\ dirs' = r.dirs
                  /\ files' = r.files
                  /\ last' = Call("save", p, game, tag, GameInfo(save_dir, backup_dir, <<>>),
                                  IF r.raised THEN "ArchiveIOFailure" ELSE "Saved", FALSE,
                                  <<timestamp, r.path>>)
                  /\ snap' = IF r.raised THEN NoCall ELSE last'
    /\ pc' = [pc EXCEPT ![p] = "done"]
    /\ UNCHANGED <<disk, config>>

\* main, list: the games and their aliases
List(p) ==
    /\ pc[p] = "ready"
    /\ LET games == get_games(config[p])
       IN last' = Call("list", p, <<>>, <<>>, NoInfo,
                       IF games = <<>> THEN "NoGames" ELSE "Listed", FALSE,
                       [i \in 1..Len(games) |-> <<games[i][1], games[i][2].aliases>>])
    /\ pc' = [pc EXCEPT ![p] = "done"]
    /\ snap' = NoCall
    /\ UNCHANGED <<disk, config, dirs, files>>

\* main, show: the game is resolved and the snapshots of its backup directory
\* are listed, os.listdir returning the names in any order
Show(p, game, override) ==
    /\ pc[p] = "ready"
    /\ LET i           == get_game(config[p], game)
           game_info   == get_games(config[p])[i][2]
           save_dir    == game_info.save_dir
           backup_dir  == IF override # <<>> THEN override ELSE game_info.backup_dir
           source_name == basename(save_dir)
       IN IF i = 0
          THEN last' = Call("show", p, game, <<>>, NoInfo, "NotFound", FALSE, <<>>)
          ELSE \E listing \in Orderings(listdir(backup_dir, dirs, files)) :
                  \E snapshots \in {list_snapshots(backup_dir, source_name, dirs, listing)} :
                     last' = Call("show", p, game, <<>>,
                                  GameInfo(save_dir, backup_dir, <<>>),
                                  IF snapshots = <<>> THEN "NoSnapshots" ELSE "Listed",
                                  FALSE, snapshots)
    /\ pc' = [pc EXCEPT ![p] = "done"]
    /\ UNCHANGED <<disk, config, dirs, files, snap>>

\* one user running commands one after the other
NextCli ==
    \/ Load(1)
    \/ Exit(1)
    \/ \E args \in RegisterArgs, ok \in BOOLEAN : Register(1, args, ok)
    \/ \E g \in AliasNames, t \in Tags, o \in Overrides, now \in Clocks : Save(1, g, t, o, now)
    \/ List(1)
    \/ \E g \in AliasNames, o \in Overrides : Show(1, g, o)

SpecCli == Init /\ [][NextCli]_vars

\* several users each running one register command at the same time
NextConc ==
    \/ \E p \in Procs : Load(p)
    \/ \E p \in Procs, args \in RegisterArgs, ok \in BOOLEAN : Register(p, args, ok)

SpecConc == Init /\ [][NextConc]_vars

----------------------------------------------------------------------------
(* list_snapshots on any directory content *)

\* number of names in the directory listed
MaxListed == 3

\* "g_" + x + ".zip"
GFile(x) == <<"g", "_">> \o x \o ZipExt

\* the names a backup directory may hold: well-formed archives of g with and
\* without tag, equal and different timestamps, archives of g_h and gx, names
\* with fewer than two components, another extension
FilePool ==
    {GFile(<<"2", "_", "1">>),
     GFile(<<"1", "_", "2">>),
     GFile(<<"2", "_", "1", "_", "t">>),
     GFile(<<"2", "_", "1", "_", "t", "_", "u">>),
     GFile(<<"1", "_", "1", "_">>),
     GFile(<<"_">>),
     GFile(<<"h", "_", "2", "_", "1">>),
     GFile(<<"x">>),
     GFile(<<>>),
     <<"g", "x", "_", "2", "_", "1">> \o ZipExt,
     <<"g", "_", "2", "_", "2", ".", "z", "i">>}

InitList ==
    /\ disk = [kind |-> "missing", doc |-> EmptyDoc]
    /\ pc = [p \in Procs |-> "start"]
    /\ config = [p \in Procs |-> EmptyDoc]
    /\ dirs = {SaveG, SaveGH, BackupB}
    /\ \E S \in SUBSET FilePool :
           /\ Cardinality(S) <= MaxListed
           /\ files = {<<BackupB, f>> : f \in S}
    /\ last = NoCall
    /\ snap = NoCall

\* BackupManager.list_snapshots called on a directory
ListSnapshots(backup_dir, source_name) ==
    /\ \E listing \in Orderings(listdir(backup_dir, dirs, files)) :
           last' = Call("list_snapshots", 0, source_name, backup_dir, NoInfo, "None", FALSE,
                        list_snapshots(backup_dir, source_name, dirs, listing))
    /\ UNCHANGED <<disk, pc, config, dirs, files, snap>>

NextList ==
    \E d \in {BackupB, BackupS3, SaveX}, n \in {<<"g">>, <<"g", "_", "h">>} :
        ListSnapshots(d, n)

SpecList == InitList /\ [][NextList]_vars

----------------------------------------------------------------------------
(* The registry claims *)

\* two documents are equal as Python dicts
DocEq(d, e) ==
    /\ d.hasVersion = e.hasVersion
    /\ d.hasGames = e.hasGames
    /\ DictEq(d.games, e.games)

\* the operations that write the document when they succeed
Mutating == {"add_game", "add_alias", "update_game", "remove_game"}

\* C1, as stated: in every registry state, every alias in the alias list of
\* an entry resolves (get_game) to the same entry as the entry's primary name;
\* in particular right after add_alias(n, a) has returned True.
C1_AliasResolvesLikeName ==
    \A p \in Procs :
        LET games == get_games(config[p])
        IN /\ \A i \in 1..Len(games) : \A k \in 1..Len(games[i][2].aliases) :
                  get_game(config[p], games[i][2].aliases[k])
                      = get_game(config[p], games[i][1])
           /\ (last.op = "add_alias" /\ last.proc = p /\ last.ret = "True")
                  => get_game(config[p], last.alias) = get_game(config[p], last.name)

\* C1, amended: an alias in the alias list of an entry resolves to the same
\* entry as the entry's primary name whenever the alias is not the primary
\* name of another entry and no entry earlier in the iteration order of the
\* mapping lists it; so also right after add_alias(n, a) has returned True.
C1_UnshadowedAliasResolvesLikeName ==
    \A p \in Procs :
        LET games == get_games(config[p])
            Unshadowed(i, al) ==
                /\ \A j \in 1..Len(games) : j # i => games[j][1] # al
                /\ \A j \in 1..(i - 1) : ~InList(al, games[j][2].aliases)
        IN /\ \A i \in 1..Len(games) : \A k \in 1..Len(games[i][2].aliases) :
                  Unshadowed(i, games[i][2].aliases[k])
                      => /\ get_game(config[p], games[i][2].aliases[k]) = i
                         /\ get_game(config[p], games[i][1]) = i
           /\ (/\ last.op = "add_alias" /\ last.proc = p /\ last.ret = "True"
               /\ Unshadowed(IndexOf(games, last.name), last.alias))
                  => /\ get_game(config[p], last.alias) # 0
                     /\ get_game(config[p], last.alias)
                            = get_game(config[p], last.name)

\* C1 witness: add_alias has just appended to the second entry an alias that
\* is no primary name and that the first entry does not list, and the alias
\* resolves to the second entry.
C1_Witness ==
    /\ last.op = "add_alias" /\ last.ret = "True" /\ last.saved
    /\ Len(get_games(config[last.proc])) = 2
    /\ ~HasKey(get_games(config[last.proc]), last.alias)
    /\ IndexOf(get_games(config[last.proc]), last.name) = 2
    /\ get_game(config[last.proc], last.alias) = 2

\* C2, as stated: in every registry state no entry lists its own primary name
\* among its aliases.
C2_NameNotInOwnAliases ==
    \A p \in Procs :
        \A i \in 1..Len(get_games(config[p])) :
            ~InList(get_games(config[p])[i][1], get_games(config[p])[i][2].aliases)

C7_MutationsPersistWholeDocument ==
    [][(/\ last'.op \in Mutating
        /\ \/ last'.op = "add_game"
           \/ last'.op = "add_alias" /\ config'[last'.proc] # config[last'.proc]
           \/ last'.op \in {"update_game", "remove_game"} /\ last'.ret = "True")
          => /\ disk'.kind = "yaml"
             /\ DocEq(disk'.doc, config'[last'.proc])
             /\ DocEq(load_config(disk').config, config'[last'.proc])
             /\ load_config(disk').disk = disk'
      ]_vars

\* C7 witness: add_alias has appended, the in-memory mapping holds two games
\* in an order other than the one of the file, and the two are equal as
\* documents.
C7_Witness ==
    /\ last.op = "add_alias" /\ last.saved
    /\ Len(config[last.proc].games) = 2
    /\ disk.kind = "yaml"
    /\ disk.doc.games # config[last.proc].games
    /\ DocEq(disk.doc, config[last.proc])

\* C8: update_game(x, e) and remove_game(x) act on the entry get_game(x)
\* returns.  Found: update stores e under that entry's primary name, remove
\* deletes that key, every other entry and the order stay, the result is
\* True.  Not found: the result is False, the registry (get_games) and the
\* file stay as they were.
C8_UpdateRemoveActOnResolved ==
    [][(last'.op \in {"update_game", "remove_game"})
          => LET p     == last'.proc
                 games == get_games(config[p])
                 i     == get_game(config[p], last'.name)
             IN IF i = 0
                THEN /\ last'.ret = "False"
                     /\ get_games(config'[p]) = games
                     /\ disk' = disk
                ELSE /\ last'.ret = "True"
                     /\ get_games(config'[p]) =
                          IF last'.op = "update_game"
                          THEN [j \in 1..Len(games) |->
                                   IF j = i THEN <<games[i][1], last'.info>> ELSE games[j]]
                          ELSE SubSeq(games, 1, i - 1) \o SubSeq(games, i + 1, Len(games))
      ]_vars

\* C8 witness: update_game found its entry by an alias, in a registry of two
\* games, and the entry is stored under its primary name.
C8_Witness ==
    /\ last.op = "update_game" /\ last.ret = "True"
    /\ Len(get_games(config[last.proc])) = 2
    /\ ~HasKey(get_games(config[last.proc]), last.name)
    /\ \E i \in 1..2 : get_games(config[last.proc])[i][2] = last.info

----------------------------------------------------------------------------
(* The command and snapshot claims *)

C5_ListSnapshotsFilteredAndSorted ==
    (last.op = "list_snapshots" /\ ~is_s3_path(last.alias) /\ last.alias \in dirs)
        => LET out    == last.out
               prefix == last.name \o <<"_">>
               Middle(f) == SubSeq(f, Len(prefix) + 1, Len(f) - Len(ZipExt))
               wanted == {f \in listdir(last.alias, dirs, files) :
                             /\ startswith(f, prefix)
                             /\ endswith(f, ZipExt)
                             /\ Count("_", Middle(f)) >= 1}
           IN /\ {out[i].file : i \in 1..Len(out)} = wanted
              /\ Len(out) = Cardinality(wanted)
              /\ \A i, j \in 1..Len(out) :
                     i < j => ~StrLess(out[i].timestamp, out[j].timestamp)

\* C5 witness: a listing of two snapshots with different timestamps, from a
\* directory that also holds a name with the prefix and the extension and
\* fewer than two components.
C5_Witness ==
    /\ last.op = "list_snapshots" /\ last.alias = BackupB
    /\ Len(last.out) = 2
    /\ StrLess(last.out[2].timestamp, last.out[1].timestamp)
    /\ \E f \in listdir(BackupB, dirs, files) :
           /\ startswith(f, last.name \o <<"_">>) /\ endswith(f, ZipExt)
           /\ \A i \in 1..Len(last.out) : last.out[i].file # f

\* the shape YYYY-MM-DD_HH-MM-SS
IsTimestamp(ts) ==
    /\ Len(ts) = 19
    /\ \A i \in 1..19 :
           IF i \in {5, 8, 14, 17} THEN ts[i] = "-"
           ELSE IF i = 11 THEN ts[i] = "_"
           ELSE \E k \in 1..10 : ts[i] = Digits[k]

\* C6: a show command that follows a save command that created its archive,
\* for the same game and the same local backup directory, lists an entry with
\* the timestamp the save command used and the tag it was given (None when it
\* was given none).
C6_SaveThenShowRoundTrip ==
    (/\ last.op = "show" /\ snap.op = "save" /\ snap.ret = "Saved"
     /\ last.name = snap.name /\ last.info = snap.info
     /\ ~is_s3_path(snap.info.backup_dir))
        => /\ IsTimestamp(snap.out[1])
           /\ \E i \in 1..Len(last.out) :
                  /\ last.out[i].timestamp = snap.out[1]
                  /\ last.out[i].tag = (IF snap.alias = <<>> THEN <<>> ELSE <<snap.alias>>)

\* C6 witness: show follows a save with a tag that contains an underscore and
\* lists two snapshots, one of them with that tag.
C6_Witness ==
    /\ last.op = "show" /\ snap.op = "save" /\ snap.ret = "Saved"
    /\ last.name = snap.name /\ last.info = snap.info
    /\ InList("_", snap.alias)
    /\ Len(last.out) = 2
    /\ \E i \in 1..2 : last.out[i].tag = <<snap.alias>>

\* C9: when a register command of process p succeeds right after one of
\* process q that registered another game, and p loaded the document before
\* q wrote it, the file then holds p's document: p's game is in it as
\* registered, and q's game, which was in the file, is not.
C9_LastWriterWins ==
    [][(/\ last'.op = "register" /\ last'.ret = "Registered"
        /\ pc[last'.proc] = "ready" /\ pc'[last'.proc] = "done")
          => /\ DocEq(disk'.doc, config'[last'.proc])
             /\ HasKey(disk'.doc.games, last'.name)
             /\ Lookup(disk'.doc.games, last'.name) = last'.info
             /\ (/\ last.op = "register" /\ last.ret = "Registered"
                 /\ last.proc # last'.proc
                 /\ last.name # last'.name
                 /\ ~HasKey(get_games(config[last'.proc]), last.name))
                    => /\ HasKey(disk.doc.games, last.name)
                       /\ ~HasKey(disk'.doc.games, last.name)
      ]_vars

\* C9 witness: two processes have each registered a different game; the file
\* holds only the game of the one that wrote last, and the other process
\* holds a game that the file has lost.
C9_Witness ==
    \E p, q \in Procs :
        /\ p # q /\ pc[p] = "done" /\ pc[q] = "done"
        /\ last.op = "register" /\ last.ret = "Registered" /\ last.proc = p
        /\ Keys(disk.doc.games) = {last.name}
        /\ \E n \in Keys(get_games(config[q])) :
               n # last.name /\ ~HasKey(disk.doc.games, n)

\* C11: a show command for game G that follows a save command that created
\* its archive for a game whose save directory has another base name than
\* G's never lists the archive of that save, and every timestamp it lists has
\* the shape of the timestamps the save commands use.
C11_ShowListsOnlyOwnSnapshots ==
    (/\ last.op = "show" /\ last.ret = "Listed"
     /\ snap.op = "save" /\ snap.ret = "Saved"
     /\ basename(snap.info.save_dir) # basename(last.info.save_dir))
        => \A i \in 1..Len(last.out) :
               /\ last.out[i].file # basename(snap.out[2])
               /\ IsTimestamp(last.out[i].timestamp)

====
